---- MODULE Spec2Model ----
(***************************************************************************)
(* Model of hft::core::RingBuffer (src/include/RingBuffer.hpp) and of      *)
(* hft::core::SPSCRingBuffer (src/include/SPSC.hpp).                       *)
(*                                                                         *)
(* Every atomic load, store and compare_exchange and every slot access of  *)
(* Push and Pop is one step of the calling thread; the steps of different  *)
(* threads interleave freely.  Local computation (next_tail, next_head,    *)
(* the tests on local values) is folded into the step of the shared        *)
(* access that precedes it.  Two slot accesses that are enabled together   *)
(* on the same slot, one of them a write, are a data race: the access then *)
(* also has the outcome Torn.                                              *)
(***************************************************************************)
EXTENDS Integers, Sequences, FiniteSets, TLC

VARIABLES
    Variant,          \* which class template the instance is
    Policy,           \* template parameter OverflowPolicy
    Capacity,         \* template parameter Capacity
    Calls,            \* number of Push calls the producers make
    buffer_,          \* std::array<T, Capacity> buffer_
    head,             \* std::atomic<std::size_t> head
    tail,             \* std::atomic<std::size_t> tail
    drop_count,       \* std::atomic<std::size_t> drop_count (SPSC only)
    pc,               \* position of each thread inside its call
    value,            \* Push: the argument value
    current_tail,     \* Push: local current_tail / curr_tail
    next_tail,        \* Push: local next_tail
    current_head,     \* Push, Pop: local current_head / curr_head
    next_head,        \* Push, Pop: local next_head
    potential_value,  \* Pop: local potential_value
    out_value,        \* Pop: the caller's out_value
    ret,              \* the value the thread's last call returned
    front,            \* the element the thread's last Front call returned
    next_value,       \* the argument of the next Push call
    pushed,           \* values whose Push returned true, in order of return
    rejected,         \* values whose Push returned false
    popped,           \* values returned by successful Pops, in order
    evicted,          \* number of successful eviction CASes
    pre,              \* the shared state when the latest call started
    halted            \* the threads that have stopped for ever

vars == <<Variant, Policy, Capacity, Calls, buffer_, head, tail, drop_count, pc,
          value, current_tail, next_tail, current_head, next_head,
          potential_value, out_value, ret, front, next_value, pushed,
          rejected, popped, evicted, pre, halted>>

config == <<Variant, Policy, Capacity, Calls>>
shared == <<buffer_, head, tail, drop_count>>
plocals == <<value, current_tail, next_tail>>
history == <<next_value, pushed, rejected, popped, evicted>>

(***************************************************************************)
(* Bounds and configuration.                                               *)
(***************************************************************************)
\* number of Push calls made in one behaviour with one producer and one
\* consumer; the k-th call pushes the value k
MaxPush == 6

\* number of Push calls made in one behaviour with three threads
MaxPushShared == 4

\* number of Push calls made in one behaviour with four threads
MaxPushMPMC == 2

\* number of Push calls made with Overwrite beside two consumers
MaxPushEvict == 3

\* number of Push calls made in one behaviour in which threads can stop
MaxPushLive == 2

\* capacities of the instances examined (powers of two, at least 2)
Capacities == {2, 4}

\* width in bits of std::size_t taken for the unsigned subtraction of Size
SizeBits == 16

Producers == {"p1", "p2"}
Consumers == {"c1", "c2"}
Threads == Producers \cup Consumers

\* content of a value-initialised slot (buffer_ {})
Zero == 0

\* outcome of a slot access that races with a write of the same slot
Torn == 0 - 1

(***************************************************************************)
(* Index arithmetic.                                                       *)
(***************************************************************************)
RECURSIVE BitAnd(_, _)
BitAnd(a, b) ==
    IF a = 0 \/ b = 0 THEN 0
    ELSE (a % 2) * (b % 2) + 2 * BitAnd(a \div 2, b \div 2)

Mask == Capacity - 1

\* (i + 1) & Mask
Next1(i) == BitAnd(i + 1, Mask)

\* unsigned a - b in std::size_t
USub(a, b) == (a - b) % (2 ^ SizeBits)

\* RingBuffer::Empty, SPSCRingBuffer::Empty
Empty == head = tail

\* Size with Capacity in the place of Mask
SizeMut == BitAnd(USub(tail, head), Capacity)

\* RingBuffer::Size
Size == BitAnd(USub(tail, head), Mask)

(***************************************************************************)
(* Slot accesses.                                                          *)
(***************************************************************************)
\* the producers about to write slot i
Writers(i) == {p \in Producers : pc[p] = "write" /\ current_tail[p] = i}

\* ReadOutcomes with the slot taken at the advanced index
ReadOutcomesMut(i) ==
    {buffer_[Next1(i)]} \cup
    (IF Writers(i) = {} THEN {} ELSE {Torn} \cup {value[p] : p \in Writers(i)})

\* what a read of slot i can yield
ReadOutcomes(i) ==
    {buffer_[i]} \cup
    (IF Writers(i) = {} THEN {} ELSE {Torn} \cup {value[p] : p \in Writers(i)})

\* what a write of v to slot i by p can leave in the slot
WriteOutcomes(p, i, v) ==
    {v} \cup (IF Writers(i) \ {p} = {} THEN {} ELSE {Torn})

\* the shared state as the call of thread t finds it
Snapshot(t) == [caller |-> t, head |-> head, tail |-> tail,
                buffer_ |-> buffer_, drop_count |-> drop_count,
                out_value |-> out_value[t], before |-> pre.caller,
                ret |-> ret, front |-> front]

(***************************************************************************)
(* Initial state: a freshly constructed instance, all threads outside any  *)
(* call.                                                                   *)
(***************************************************************************)
InitWith(variants, policies, calls) ==
    /\ Variant \in variants
    /\ Policy \in (IF Variant = "SPSCRingBuffer" THEN {"Reject"} ELSE policies)
    /\ Capacity \in Capacities
    /\ Calls = calls
    /\ buffer_ = [i \in 0..(Capacity - 1) |-> Zero]
    /\ head = 0
    /\ tail = 0
    /\ drop_count = 0
    /\ pc = [t \in Threads |-> "idle"]
    /\ value = [t \in Threads |-> 0]
    /\ current_tail = [t \in Threads |-> 0]
    /\ next_tail = [t \in Threads |-> 0]
    /\ current_head = [t \in Threads |-> 0]
    /\ next_head = [t \in Threads |-> 0]
    /\ potential_value = [t \in Threads |-> 0]
    /\ out_value = [t \in Threads |-> 0]
    /\ ret = [t \in Threads |-> "none"]
    /\ front = [t \in Threads |-> 0]
    /\ next_value = 1
    /\ pushed = <<>>
    /\ rejected = {}
    /\ popped = <<>>
    /\ evicted = 0
    /\ pre = [caller |-> "none", head |-> 0, tail |-> 0,
              buffer_ |-> [i \in 0..(Capacity - 1) |-> Zero],
              drop_count |-> 0, out_value |-> 0, before |-> "none",
              ret |-> [t \in Threads |-> "none"],
              front |-> [t \in Threads |-> 0]]
    /\ halted = {}

(***************************************************************************)
(* Return of a call of thread t with result r: the locals of the call      *)
(* cease to exist.                                                         *)
(***************************************************************************)
Return(t, r) ==
    /\ pc' = [pc EXCEPT ![t] = "idle"]
    /\ ret' = [ret EXCEPT ![t] = r]
    /\ current_tail' = [current_tail EXCEPT ![t] = 0]
    /\ next_tail' = [next_tail EXCEPT ![t] = 0]
    /\ current_head' = [current_head EXCEPT ![t] = 0]
    /\ next_head' = [next_head EXCEPT ![t] = 0]
    /\ potential_value' = [potential_value EXCEPT ![t] = 0]

(***************************************************************************)
(* RingBuffer::Push                                                        *)
(***************************************************************************)
\* the call starts; current_tail = tail.load(relaxed); next_tail
Push_LoadTail(p) ==
    /\ Variant = "RingBuffer"
    /\ pc[p] = "idle"
    /\ next_value <= Calls
    /\ value' = [value EXCEPT ![p] = next_value]
    /\ next_value' = next_value + 1
    /\ current_tail' = [current_tail EXCEPT ![p] = tail]
    /\ next_tail' = [next_tail EXCEPT ![p] = Next1(tail)]
    /\ ret' = [ret EXCEPT ![p] = "none"]
    /\ pc' = [pc EXCEPT ![p] = "load_head"]
    /\ UNCHANGED <<config, shared, current_head, next_head, potential_value,
                   out_value, pushed, rejected, popped, evicted>>

\* Push_LoadHead with the test of the policy inverted
Push_LoadHeadMut(p) ==
    /\ Variant = "RingBuffer"
    /\ pc[p] = "load_head"
    /\ IF next_tail[p] = head
       THEN IF Policy # "Reject"
            THEN /\ Return(p, "false")
                 /\ rejected' = rejected \cup {value[p]}
            ELSE /\ pc' = [pc EXCEPT ![p] = "cas_evict"]
                 /\ current_head' = [current_head EXCEPT ![p] = head]
                 /\ next_head' = [next_head EXCEPT ![p] = Next1(head)]
                 /\ UNCHANGED <<ret, rejected, current_tail, next_tail,
                                potential_value>>
       ELSE /\ pc' = [pc EXCEPT ![p] = "write"]
            /\ current_head' = [current_head EXCEPT ![p] = head]
            /\ UNCHANGED <<ret, rejected, current_tail, next_tail, next_head,
                           potential_value>>
    /\ UNCHANGED <<config, shared, value, out_value, next_value, pushed,
                   popped, evicted>>

\* current_head = head.load(acquire); the tests of lines 45 and 46;
\* next_head of line 49
Push_LoadHead(p) ==
    /\ Variant = "RingBuffer"
    /\ pc[p] = "load_head"
    /\ IF next_tail[p] = head
       THEN IF Policy = "Reject"
            THEN /\ Return(p, "false")
                 /\ rejected' = rejected \cup {value[p]}
            ELSE /\ pc' = [pc EXCEPT ![p] = "cas_evict"]
                 /\ current_head' = [current_head EXCEPT ![p] = head]
                 /\ next_head' = [next_head EXCEPT ![p] = Next1(head)]
                 /\ UNCHANGED <<ret, rejected, current_tail, next_tail,
                                potential_value>>
       ELSE /\ pc' = [pc EXCEPT ![p] = "write"]
            /\ current_head' = [current_head EXCEPT ![p] = head]
            /\ UNCHANGED <<ret, rejected, current_tail, next_tail, next_head,
                           potential_value>>
    /\ UNCHANGED <<config, shared, value, out_value, next_value, pushed,
                   popped, evicted>>

\* Push_CAS with the eviction advancing head by two slots
Push_CASMut(p) ==
    /\ Variant = "RingBuffer"
    /\ pc[p] = "cas_evict"
    /\ IF head = current_head[p]
       THEN /\ head' = Next1(next_head[p])
            /\ evicted' = evicted + 1
            /\ pc' = [pc EXCEPT ![p] = "write"]
            /\ UNCHANGED <<current_head, next_head>>
       ELSE /\ current_head' = [current_head EXCEPT ![p] = head]
            /\ IF next_tail[p] # head
               THEN /\ pc' = [pc EXCEPT ![p] = "write"]
                    /\ UNCHANGED next_head
               ELSE /\ next_head' = [next_head EXCEPT ![p] = Next1(head)]
                    /\ UNCHANGED pc
            /\ UNCHANGED <<head, evicted>>
    /\ UNCHANGED <<config, buffer_, tail, drop_count, plocals,
                   potential_value, out_value, ret, next_value, pushed,
                   rejected, popped>>

\* Push_CAS advancing head whatever value it finds there
Push_CASForce(p) ==
    /\ Variant = "RingBuffer"
    /\ pc[p] = "cas_evict"
    /\ head' = Next1(head)
    /\ evicted' = evicted + 1
    /\ pc' = [pc EXCEPT ![p] = "write"]
    /\ UNCHANGED <<config, buffer_, tail, drop_count, plocals, current_head,
                   next_head, potential_value, out_value, ret, next_value,
                   pushed, rejected, popped>>

\* one evaluation of head.compare_exchange_strong(current_head, next_head)
\* and, when it fails, the loop body of lines 51-54
Push_CAS(p) ==
    /\ Variant = "RingBuffer"
    /\ pc[p] = "cas_evict"
    /\ IF head = current_head[p]
       THEN /\ head' = next_head[p]
            /\ evicted' = evicted + 1
            /\ pc' = [pc EXCEPT ![p] = "write"]
            /\ UNCHANGED <<current_head, next_head>>
       ELSE /\ current_head' = [current_head EXCEPT ![p] = head]
            /\ IF next_tail[p] # head
               THEN /\ pc' = [pc EXCEPT ![p] = "write"]
                    /\ UNCHANGED next_head
               ELSE /\ next_head' = [next_head EXCEPT ![p] = Next1(head)]
                    /\ UNCHANGED pc
            /\ UNCHANGED <<head, evicted>>
    /\ UNCHANGED <<config, buffer_, tail, drop_count, plocals,
                   potential_value, out_value, ret, next_value, pushed,
                   rejected, popped>>

\* Push_Write advancing tail and leaving the slot as it is
Push_PublishFirst(p) ==
    /\ Variant = "RingBuffer"
    /\ pc[p] = "write"
    /\ tail' = next_tail[p]
    /\ pc' = [pc EXCEPT ![p] = "store_tail"]
    /\ UNCHANGED <<config, buffer_, head, drop_count, plocals, current_head,
                   next_head, potential_value, out_value, ret, history>>

\* buffer_[current_tail] = value
Push_Write(p) ==
    /\ Variant = "RingBuffer"
    /\ pc[p] = "write"
    /\ \E w \in WriteOutcomes(p, current_tail[p], value[p]) :
          buffer_' = [buffer_ EXCEPT ![current_tail[p]] = w]
    /\ pc' = [pc EXCEPT ![p] = "store_tail"]
    /\ UNCHANGED <<config, head, tail, drop_count, plocals, current_head,
                   next_head, potential_value, out_value, ret, history>>

\* tail.store(next_tail, release); return true
Push_StoreTail(p) ==
    /\ Variant = "RingBuffer"
    /\ pc[p] = "store_tail"
    /\ tail' = next_tail[p]
    /\ Return(p, "true")
    /\ pushed' = Append(pushed, value[p])
    /\ UNCHANGED <<config, buffer_, head, drop_count, value, out_value,
                   next_value, rejected, popped, evicted>>

Push(p) ==
    /\ UNCHANGED front
    /\ \/ Push_LoadTail(p)
       \/ Push_LoadHead(p)
       \/ Push_CAS(p)
       \/ Push_Write(p)
       \/ Push_StoreTail(p)

(***************************************************************************)
(* RingBuffer::Pop                                                         *)
(***************************************************************************)
\* the call starts; current_head = head.load(acquire)
Pop_LoadHead(c) ==
    /\ Variant = "RingBuffer"
    /\ pc[c] = "idle"
    /\ current_head' = [current_head EXCEPT ![c] = head]
    /\ ret' = [ret EXCEPT ![c] = "none"]
    /\ pc' = [pc EXCEPT ![c] = "load_tail"]
    /\ UNCHANGED <<config, shared, plocals, next_head, potential_value,
                   out_value, history>>

\* Pop_LoadTail reporting empty one element early
Pop_LoadTailEarly(c) ==
    /\ Variant = "RingBuffer"
    /\ pc[c] = "load_tail"
    /\ IF current_head[c] = tail \/ Next1(current_head[c]) = tail
       THEN Return(c, "false")
       ELSE /\ pc' = [pc EXCEPT ![c] = "read"]
            /\ UNCHANGED <<ret, current_tail, next_tail, current_head,
                           next_head, potential_value>>
    /\ UNCHANGED <<config, shared, value, out_value, history>>

\* if (current_head == tail.load(acquire)) return false
Pop_LoadTail(c) ==
    /\ Variant = "RingBuffer"
    /\ pc[c] = "load_tail"
    /\ IF current_head[c] = tail
       THEN Return(c, "false")
       ELSE /\ pc' = [pc EXCEPT ![c] = "read"]
            /\ UNCHANGED <<ret, current_tail, next_tail, current_head,
                           next_head, potential_value>>
    /\ UNCHANGED <<config, shared, value, out_value, history>>

\* potential_value = buffer_[current_head]; next_head
Pop_Read(c) ==
    /\ Variant = "RingBuffer"
    /\ pc[c] = "read"
    /\ \E r \in ReadOutcomes(current_head[c]) :
          potential_value' = [potential_value EXCEPT ![c] = r]
    /\ next_head' = [next_head EXCEPT ![c] = Next1(current_head[c])]
    /\ pc' = [pc EXCEPT ![c] = "cas"]
    /\ UNCHANGED <<config, shared, plocals, current_head, out_value, ret,
                   history>>

\* Pop_CAS with a failed compare_exchange_strong leaving current_head as
\* it was
Pop_CASStale(c) ==
    /\ Variant = "RingBuffer"
    /\ pc[c] = "cas"
    /\ IF head = current_head[c]
       THEN /\ head' = next_head[c]
            /\ out_value' = [out_value EXCEPT ![c] = potential_value[c]]
            /\ popped' = Append(popped, potential_value[c])
            /\ Return(c, "true")
       ELSE /\ pc' = [pc EXCEPT ![c] = "load_tail"]
            /\ UNCHANGED <<head, out_value, ret, popped, current_tail,
                           next_tail, current_head, next_head,
                           potential_value>>
    /\ UNCHANGED <<config, buffer_, tail, drop_count, value, next_value,
                   pushed, rejected, evicted>>

\* head.compare_exchange_strong(current_head, next_head); on success
\* out_value = potential_value and return true, on failure the next
\* iteration of the loop
Pop_CAS(c) ==
    /\ Variant = "RingBuffer"
    /\ pc[c] = "cas"
    /\ IF head = current_head[c]
       THEN /\ head' = next_head[c]
            /\ out_value' = [out_value EXCEPT ![c] = potential_value[c]]
            /\ popped' = Append(popped, potential_value[c])
            /\ Return(c, "true")
       ELSE /\ current_head' = [current_head EXCEPT ![c] = head]
            /\ pc' = [pc EXCEPT ![c] = "load_tail"]
            /\ UNCHANGED <<head, out_value, ret, popped, current_tail,
                           next_tail, next_head, potential_value>>
    /\ UNCHANGED <<config, buffer_, tail, drop_count, value, next_value,
                   pushed, rejected, evicted>>

Pop(c) ==
    /\ UNCHANGED front
    /\ \/ Pop_LoadHead(c)
       \/ Pop_LoadTail(c)
       \/ Pop_Read(c)
       \/ Pop_CAS(c)

(***************************************************************************)
(* RingBuffer::Front                                                       *)
(***************************************************************************)
\* assert(!Empty()): on an empty buffer a build with assertions aborts the
\* process, a build with NDEBUG goes on
Front_Assert(c) ==
    /\ Variant = "RingBuffer"
    /\ pc[c] = "idle"
    /\ \E l \in (IF Empty THEN {"aborted", "front_load"} ELSE {"front_load"}) :
          pc' = [pc EXCEPT ![c] = l]
    /\ UNCHANGED <<config, shared, plocals, current_head, next_head,
                   potential_value, out_value, ret, front, history>>

\* Front_Load returning the slot after the one at head
Front_LoadNext(c) ==
    /\ Variant = "RingBuffer"
    /\ pc[c] = "front_load"
    /\ \E r \in ReadOutcomes(Next1(head)) : front' = [front EXCEPT ![c] = r]
    /\ Return(c, "value")
    /\ UNCHANGED <<config, shared, value, out_value, history>>

\* return buffer_[head.load(std::memory_order_relaxed)]
Front_Load(c) ==
    /\ Variant = "RingBuffer"
    /\ pc[c] = "front_load"
    /\ \E r \in ReadOutcomes(head) : front' = [front EXCEPT ![c] = r]
    /\ Return(c, "value")
    /\ UNCHANGED <<config, shared, value, out_value, history>>

Front(c) ==
    \/ Front_Assert(c)
    \/ Front_Load(c)

(***************************************************************************)
(* SPSCRingBuffer::Push                                                    *)
(***************************************************************************)
\* the call starts; curr_tail = tail.load(relaxed); next_tail
SPSC_Push_LoadTail(p) ==
    /\ Variant = "SPSCRingBuffer"
    /\ pc[p] = "idle"
    /\ next_value <= Calls
    /\ value' = [value EXCEPT ![p] = next_value]
    /\ next_value' = next_value + 1
    /\ current_tail' = [current_tail EXCEPT ![p] = tail]
    /\ next_tail' = [next_tail EXCEPT ![p] = Next1(tail)]
    /\ ret' = [ret EXCEPT ![p] = "none"]
    /\ pc' = [pc EXCEPT ![p] = "load_head"]
    /\ UNCHANGED <<config, shared, current_head, next_head, potential_value,
                   out_value, pushed, rejected, popped, evicted>>

\* SPSC_Push_LoadHead with next_tail compared with tail, not head
SPSC_Push_LoadHeadMut(p) ==
    /\ Variant = "SPSCRingBuffer"
    /\ pc[p] = "load_head"
    /\ IF next_tail[p] = tail
       THEN pc' = [pc EXCEPT ![p] = "fetch_add"]
       ELSE pc' = [pc EXCEPT ![p] = "write"]
    /\ UNCHANGED <<config, shared, plocals, current_head, next_head,
                   potential_value, out_value, ret, history>>

\* if (next_tail == head.load(acquire))
SPSC_Push_LoadHead(p) ==
    /\ Variant = "SPSCRingBuffer"
    /\ pc[p] = "load_head"
    /\ IF next_tail[p] = head
       THEN pc' = [pc EXCEPT ![p] = "fetch_add"]
       ELSE pc' = [pc EXCEPT ![p] = "write"]
    /\ UNCHANGED <<config, shared, plocals, current_head, next_head,
                   potential_value, out_value, ret, history>>

\* SPSC_Push_Drop without the fetch_add
SPSC_Push_DropMut(p) ==
    /\ Variant = "SPSCRingBuffer"
    /\ pc[p] = "fetch_add"
    /\ Return(p, "false")
    /\ rejected' = rejected \cup {value[p]}
    /\ UNCHANGED <<config, shared, value, out_value, next_value, pushed,
                   popped, evicted>>

\* SPSC_Push_Drop retrying the test for room instead of returning
SPSC_Push_DropRetry(p) ==
    /\ Variant = "SPSCRingBuffer"
    /\ pc[p] = "fetch_add"
    /\ drop_count' = drop_count + 1
    /\ pc' = [pc EXCEPT ![p] = "load_head"]
    /\ UNCHANGED <<config, buffer_, head, tail, plocals, current_head,
                   next_head, potential_value, out_value, ret, history>>

\* SPSC_Push_Drop advancing head past the oldest element as well
SPSC_Push_DropEvicts(p) ==
    /\ Variant = "SPSCRingBuffer"
    /\ pc[p] = "fetch_add"
    /\ drop_count' = drop_count + 1
    /\ head' = Next1(head)
    /\ Return(p, "false")
    /\ rejected' = rejected \cup {value[p]}
    /\ UNCHANGED <<config, buffer_, tail, value, out_value, next_value,
                   pushed, popped, evicted>>

\* drop_count.fetch_add(1, relaxed); return false
SPSC_Push_Drop(p) ==
    /\ Variant = "SPSCRingBuffer"
    /\ pc[p] = "fetch_add"
    /\ drop_count' = drop_count + 1
    /\ Return(p, "false")
    /\ rejected' = rejected \cup {value[p]}
    /\ UNCHANGED <<config, buffer_, head, tail, value, out_value, next_value,
                   pushed, popped, evicted>>

\* buffer_[curr_tail] = value
SPSC_Push_Write(p) ==
    /\ Variant = "SPSCRingBuffer"
    /\ pc[p] = "write"
    /\ \E w \in WriteOutcomes(p, current_tail[p], value[p]) :
          buffer_' = [buffer_ EXCEPT ![current_tail[p]] = w]
    /\ pc' = [pc EXCEPT ![p] = "store_tail"]
    /\ UNCHANGED <<config, head, tail, drop_count, plocals, current_head,
                   next_head, potential_value, out_value, ret, history>>

\* tail.store(next_tail, release); return true
SPSC_Push_StoreTail(p) ==
    /\ Variant = "SPSCRingBuffer"
    /\ pc[p] = "store_tail"
    /\ tail' = next_tail[p]
    /\ Return(p, "true")
    /\ pushed' = Append(pushed, value[p])
    /\ UNCHANGED <<config, buffer_, head, drop_count, value, out_value,
                   next_value, rejected, popped, evicted>>

SPSC_Push(p) ==
    /\ UNCHANGED front
    /\ \/ SPSC_Push_LoadTail(p)
       \/ SPSC_Push_LoadHead(p)
       \/ SPSC_Push_Drop(p)
       \/ SPSC_Push_Write(p)
       \/ SPSC_Push_StoreTail(p)

(***************************************************************************)
(* SPSCRingBuffer::Pop                                                     *)
(***************************************************************************)
\* the call starts; curr_head = head.load(relaxed)
SPSC_Pop_LoadHead(c) ==
    /\ Variant = "SPSCRingBuffer"
    /\ pc[c] = "idle"
    /\ current_head' = [current_head EXCEPT ![c] = head]
    /\ ret' = [ret EXCEPT ![c] = "none"]
    /\ pc' = [pc EXCEPT ![c] = "load_tail"]
    /\ UNCHANGED <<config, shared, plocals, next_head, potential_value,
                   out_value, history>>

\* if (curr_head == tail.load(acquire)) return false
\* SPSC_Pop_LoadTail copying the slot at head to out_value before the test
SPSC_Pop_LoadTailCopies(c) ==
    /\ Variant = "SPSCRingBuffer"
    /\ pc[c] = "load_tail"
    /\ out_value' = [out_value EXCEPT ![c] = buffer_[current_head[c]]]
    /\ IF current_head[c] = tail
       THEN Return(c, "false")
       ELSE /\ pc' = [pc EXCEPT ![c] = "read"]
            /\ UNCHANGED <<ret, current_tail, next_tail, current_head,
                           next_head, potential_value>>
    /\ UNCHANGED <<config, shared, value, history>>

SPSC_Pop_LoadTail(c) ==
    /\ Variant = "SPSCRingBuffer"
    /\ pc[c] = "load_tail"
    /\ IF current_head[c] = tail
       THEN Return(c, "false")
       ELSE /\ pc' = [pc EXCEPT ![c] = "read"]
            /\ UNCHANGED <<ret, current_tail, next_tail, current_head,
                           next_head, potential_value>>
    /\ UNCHANGED <<config, shared, value, out_value, history>>

\* out_value = buffer_[curr_head]
SPSC_Pop_Read(c) ==
    /\ Variant = "SPSCRingBuffer"
    /\ pc[c] = "read"
    /\ \E r \in ReadOutcomes(current_head[c]) :
          out_value' = [out_value EXCEPT ![c] = r]
    /\ pc' = [pc EXCEPT ![c] = "store_head"]
    /\ UNCHANGED <<config, shared, plocals, current_head, next_head,
                   potential_value, ret, history>>

\* head.store((curr_head + 1) & Mask, release); return true
SPSC_Pop_StoreHead(c) ==
    /\ Variant = "SPSCRingBuffer"
    /\ pc[c] = "store_head"
    /\ head' = Next1(current_head[c])
    /\ Return(c, "true")
    /\ popped' = Append(popped, out_value[c])
    /\ UNCHANGED <<config, buffer_, tail, drop_count, value, out_value,
                   next_value, pushed, rejected, evicted>>

SPSC_Pop(c) ==
    /\ UNCHANGED front
    /\ \/ SPSC_Pop_LoadHead(c)
       \/ SPSC_Pop_LoadTail(c)
       \/ SPSC_Pop_Read(c)
       \/ SPSC_Pop_StoreHead(c)

(***************************************************************************)
(* Specifications.                                                         *)
(***************************************************************************)
AllIdle == \A t \in Threads : pc[t] = "idle"

\* thread t runs while every other thread is outside any call
Alone(t) == \A u \in Threads \ {t} : pc[u] = "idle"

\* a step A of overlapping calls
Step(A) == A /\ UNCHANGED <<front, pre, halted>>

\* a step A of thread t when calls do not overlap; the first step of a
\* call records the state the call finds
SeqStep(t, A) ==
    /\ Alone(t)
    /\ A
    /\ pre' = IF pc[t] = "idle" THEN Snapshot(t) ELSE pre
    /\ UNCHANGED halted

\* one producer and one consumer, both classes, both policies
Init == InitWith({"RingBuffer", "SPSCRingBuffer"}, {"Reject", "Overwrite"},
                 MaxPush)

Next ==
    \/ Step(Push("p1"))
    \/ Step(Pop("c1"))
    \/ Step(SPSC_Push("p1"))
    \/ Step(SPSC_Pop("c1"))

Spec == Init /\ [][Next]_vars

\* RingBuffer<T, Capacity, Reject>, one producer and one consumer
InitReject == InitWith({"RingBuffer"}, {"Reject"}, MaxPush)

NextReject ==
    \/ Step(Push_LoadTail("p1"))
    \/ Step(Push_LoadHead("p1"))
    \/ Step(Push_Write("p1"))
    \/ Step(Push_StoreTail("p1"))
    \/ Step(Pop("c1"))

SpecReject == InitReject /\ [][NextReject]_vars

\* SPSCRingBuffer, its producer and its consumer
InitSPSC == InitWith({"SPSCRingBuffer"}, {"Reject"}, MaxPush)

NextSPSC ==
    \/ Step(SPSC_Push("p1"))
    \/ Step(SPSC_Pop("c1"))

SpecSPSC == InitSPSC /\ [][NextSPSC]_vars

\* RingBuffer<T, Capacity, Reject>, one producer and two consumers
InitRejectShared == InitWith({"RingBuffer"}, {"Reject"}, MaxPushShared)

NextConsumers ==
    \/ Step(Push_LoadTail("p1"))
    \/ Step(Push_LoadHead("p1"))
    \/ Step(Push_Write("p1"))
    \/ Step(Push_StoreTail("p1"))
    \/ \E c \in Consumers : Step(Pop(c))

SpecConsumers == InitRejectShared /\ [][NextConsumers]_vars

\* RingBuffer<T, Capacity, Reject>, two producers and one consumer
NextProducers ==
    \/ \E p \in Producers : Step(Push_LoadTail(p))
    \/ \E p \in Producers : Step(Push_LoadHead(p))
    \/ \E p \in Producers : Step(Push_Write(p))
    \/ \E p \in Producers : Step(Push_StoreTail(p))
    \/ Step(Pop("c1"))

SpecProducers == InitRejectShared /\ [][NextProducers]_vars

\* RingBuffer<T, Capacity, Overwrite>, one producer and two consumers
InitEvict == InitWith({"RingBuffer"}, {"Overwrite"}, MaxPushEvict)

NextEvict ==
    \/ Step(Push("p1"))
    \/ \E c \in Consumers : Step(Pop(c))

SpecEvict == InitEvict /\ [][NextEvict]_vars

\* RingBuffer, both policies, two producers and two consumers
InitMPMC == InitWith({"RingBuffer"}, {"Reject", "Overwrite"}, MaxPushMPMC)

NextMPMC ==
    \/ \E p \in Producers : Step(Push(p))
    \/ \E c \in Consumers : Step(Pop(c))

SpecMPMC == InitMPMC /\ [][NextMPMC]_vars

\* both classes, both policies, calls that do not overlap
NextSeq ==
    \/ SeqStep("p1", Push("p1"))
    \/ SeqStep("c1", Pop("c1"))
    \/ SeqStep("p1", SPSC_Push("p1"))
    \/ SeqStep("c1", SPSC_Pop("c1"))

SpecSeq == Init /\ [][NextSeq]_vars

\* a step A of thread t, which has not stopped
Run(t, A) == t \notin halted /\ A /\ UNCHANGED <<pre, halted>>

\* thread t stops for ever, wherever it is
Halt(t) ==
    /\ t \notin halted
    /\ halted' = halted \cup {t}
    /\ UNCHANGED <<config, shared, pc, plocals, current_head, next_head,
                   potential_value, out_value, ret, front, history, pre>>

\* SPSCRingBuffer; either side may stop for ever at any point, a side that
\* has not stopped keeps being scheduled
NextSPSCLive ==
    \/ Run("p1", SPSC_Push("p1"))
    \/ Run("c1", SPSC_Pop("c1"))
    \/ Halt("p1")
    \/ Halt("c1")

SpecSPSCLive ==
    /\ InitSPSC
    /\ [][NextSPSCLive]_vars
    /\ WF_vars(Run("p1", SPSC_Push("p1")))
    /\ WF_vars(Run("c1", SPSC_Pop("c1")))

\* RingBuffer, both policies, calls of Push, Pop and Front that do not
\* overlap
InitFront == InitWith({"RingBuffer"}, {"Reject", "Overwrite"}, MaxPush)

NextFront ==
    \/ SeqStep("p1", Push("p1"))
    \/ SeqStep("c1", Pop("c1"))
    \/ SeqStep("c1", Front("c1"))

SpecFront == InitFront /\ [][NextFront]_vars

\* RingBuffer, both policies, one producer and two consumers; any thread
\* may stop for ever at any point, a thread that has not stopped keeps
\* being scheduled
InitLive == InitWith({"RingBuffer"}, {"Reject", "Overwrite"}, MaxPushLive)

NextLive ==
    \/ Run("p1", Push("p1"))
    \/ \E c \in Consumers : Run(c, Pop(c))
    \/ \E t \in {"p1"} \cup Consumers : Halt(t)

SpecLive ==
    /\ InitLive
    /\ [][NextLive]_vars
    /\ WF_vars(Run("p1", Push("p1")))
    /\ WF_vars(Run("c1", Pop("c1")))
    /\ WF_vars(Run("c2", Pop("c2")))

(***************************************************************************)
(* Vocabulary of the properties.                                           *)
(***************************************************************************)
Range(s) == {s[i] : i \in 1..Len(s)}

IsPrefix(s, t) == Len(s) <= Len(t) /\ \A i \in 1..Len(s) : s[i] = t[i]

\* the elements from index h up to but excluding index t of slots b
ContentsOf(h, t, b) ==
    [k \in 1..BitAnd(USub(t, h), Mask) |-> b[BitAnd(h + k - 1, Mask)]]

Contents == ContentsOf(head, tail, buffer_)

PreContents == ContentsOf(pre.head, pre.tail, pre.buffer_)

\* the latest call found the buffer full
PreFull == BitAnd(pre.tail + 1, Mask) = pre.head

\* the latest call was made by t and has returned
Returned(t) == pre.caller = t /\ pc[t] = "idle"

\* the producer has made all its calls, every call has returned and the
\* buffer is drained
Finished == AllIdle /\ next_value > Calls /\ Empty

(***************************************************************************)
(* C1.  RingBuffer, Reject, one producer and one consumer, any             *)
(* interleaving of their steps: the values returned by successful Pops are *)
(* always a prefix of the values whose Push returned true, what has been   *)
(* pushed and not popped is exactly what lies between head and tail, and   *)
(* once both sides have finished the two sequences are equal.              *)
(***************************************************************************)
C1_FifoReject ==
    /\ IsPrefix(popped, pushed)
    /\ pushed = popped \o Contents
    /\ Finished => popped = pushed

\* all calls made, one of them rejected, more values delivered than the
\* buffer has slots
C1_Witness ==
    /\ Finished
    /\ Capacity = 4
    /\ rejected # {}
    /\ Len(popped) > Capacity

(***************************************************************************)
(* C2.  SPSCRingBuffer, its producer and its consumer, any interleaving:   *)
(* the values returned by successful Pops are at every moment a prefix of  *)
(* the values whose Push returned true, nothing pushed is lost, and a      *)
(* value whose Push returned false is never delivered.                     *)
(***************************************************************************)
C2_FifoSPSC ==
    /\ IsPrefix(popped, pushed)
    /\ pushed = popped \o Contents
    /\ Range(popped) \cap rejected = {}
    /\ Range(pushed) \cap rejected = {}

C2_Witness ==
    /\ Variant = "SPSCRingBuffer"
    /\ Finished
    /\ rejected # {}
    /\ Len(popped) > Capacity
    /\ popped = pushed

(***************************************************************************)
(* C3.  RingBuffer, Reject, one producer and two consumers: every value    *)
(* whose Push returned true is returned by exactly one Pop, none twice and *)
(* none skipped, that is, the successful Pops return a prefix of the       *)
(* pushed values.                                                          *)
(***************************************************************************)
C3_ExactlyOnce == IsPrefix(popped, pushed)

(***************************************************************************)
(* C4.  RingBuffer, Reject, two producers: when no call is in progress the *)
(* number of elements in the buffer is the number of Pushes that returned  *)
(* true less the number of successful Pops, and every pushed value has     *)
(* been popped or is in the buffer.                                        *)
(***************************************************************************)
C4_PushAtomic ==
    AllIdle =>
        /\ Size = Len(pushed) - Len(popped)
        /\ Range(pushed) = Range(popped) \cup Range(Contents)
        /\ Range(Contents) \cap rejected = {}

(***************************************************************************)
(* C5.  RingBuffer, Reject, calls that do not overlap: a Push that finds   *)
(* the buffer full returns false and leaves head, tail, every slot and     *)
(* Size() as it found them; no Pop ever returns a rejected value.          *)
(***************************************************************************)
C5_RejectOnFull ==
    (Variant = "RingBuffer" /\ Policy = "Reject") =>
        /\ \A p \in Producers :
              (Returned(p) /\ PreFull) =>
                  /\ ret[p] = "false"
                  /\ value[p] \in rejected
                  /\ head = pre.head
                  /\ tail = pre.tail
                  /\ buffer_ = pre.buffer_
                  /\ Size = Len(PreContents)
        /\ Range(popped) \cap rejected = {}
        /\ Range(Contents) \cap rejected = {}

\* the second rejected Push, on a buffer whose tail has wrapped
C5_Witness ==
    /\ Variant = "RingBuffer"
    /\ Policy = "Reject"
    /\ Returned("p1")
    /\ PreFull
    /\ ret["p1"] = "false"
    /\ Cardinality(rejected) = 2
    /\ pre.tail < pre.head

(***************************************************************************)
(* C6.  RingBuffer, Overwrite, calls that do not overlap: a Push that      *)
(* finds the buffer full returns true, advances head by one slot, leaves   *)
(* the elements it found less the oldest followed by the new value, and    *)
(* Size() = Capacity - 1; a successful Pop returns the oldest element and  *)
(* leaves the others.  Capacity 4: after pushing 1, 2, 3, 4 the first Pop  *)
(* returns 2 and leaves Size() = 2.                                        *)
(***************************************************************************)
C6_OverwriteOnFull ==
    (Variant = "RingBuffer" /\ Policy = "Overwrite") =>
        /\ \A p \in Producers :
              (Returned(p) /\ PreFull) =>
                  /\ ret[p] = "true"
                  /\ head = BitAnd(pre.head + 1, Mask)
                  /\ tail = BitAnd(pre.tail + 1, Mask)
                  /\ Contents = Tail(PreContents) \o <<value[p]>>
                  /\ Size = Capacity - 1
        /\ \A c \in Consumers :
              (Returned(c) /\ ret[c] = "true") =>
                  /\ out_value[c] = Head(PreContents)
                  /\ Contents = Tail(PreContents)
        /\ (Capacity = 4 /\ pushed = <<1, 2, 3, 4>> /\ evicted = 1 /\ Len(popped) = 1
                /\ AllIdle) =>
               (popped = <<2>> /\ Size = 2)

\* the scenario of the test OverwritePolicy
C6_Witness ==
    /\ Variant = "RingBuffer"
    /\ Policy = "Overwrite"
    /\ Capacity = 4
    /\ pushed = <<1, 2, 3, 4>>
    /\ evicted = 1
    /\ popped = <<2>>
    /\ Size = 2
    /\ AllIdle

(***************************************************************************)
(* C7.  Both classes, one producer and one consumer: in every reachable    *)
(* state the number of elements pushed and neither popped nor evicted is   *)
(* at most Capacity - 1 and is (tail - head) & Mask; while nothing has     *)
(* been popped the first Capacity - 1 Pushes return true and the next is   *)
(* rejected (Reject, SPSC) or evicts (Overwrite).                          *)
(***************************************************************************)
Occupied == Len(pushed) - Len(popped) - evicted

C7_Occupancy ==
    /\ Occupied <= Capacity - 1
    /\ Occupied = Size
    /\ popped = <<>> =>
          /\ rejected \cap (1..(Capacity - 1)) = {}
          /\ Capacity \in rejected => Policy = "Reject"
          /\ Capacity \in Range(pushed) =>
                 (Policy = "Overwrite" /\ evicted >= 1)

(***************************************************************************)
(* C8.  SPSCRingBuffer: in every reachable state drop_count is the number  *)
(* of Push calls that have returned false.                                 *)
(***************************************************************************)
C8_DropAccounting == drop_count = Cardinality(rejected)

C8_Witness ==
    /\ Variant = "SPSCRingBuffer"
    /\ drop_count = 2
    /\ Len(popped) >= 1
    /\ Len(pushed) > Capacity
    /\ AllIdle

(***************************************************************************)
(* C9.  RingBuffer, either policy, any number of threads: in every         *)
(* reachable state Empty() is true exactly when Size() is 0.               *)
(***************************************************************************)
C9_EmptyIffSizeZero == Empty <=> (Size = 0)

\* the indices have wrapped: tail is behind head and the buffer is not
\* empty
C9_Witness ==
    /\ tail < head
    /\ ~Empty
    /\ Size > 0
    /\ Len(popped) > 0

(***************************************************************************)
(* C10.  RingBuffer, any number of producers and consumers: every step     *)
(* that changes head or tail sets it to (old value + 1) & Mask.            *)
(***************************************************************************)
C10_IndexMonotonic ==
    [][/\ head' # head => head' = BitAnd(head + 1, Mask)
       /\ tail' # tail => tail' = BitAnd(tail + 1, Mask)]_vars

(***************************************************************************)
(* C11.  SPSCRingBuffer is wait-free: a call of Push or Pop whose thread   *)
(* has not stopped returns, whatever the other side does, also when the    *)
(* other side has stopped for ever in the middle of a call; every step of  *)
(* a call moves the call one position forward or returns, no position is   *)
(* visited twice, so a call takes at most four steps of its own.           *)
(***************************************************************************)
\* position of a label in the straight-line code of Push and Pop
Rank(l) ==
    CASE l = "idle" -> 0
      [] l \in {"load_head", "load_tail"} -> 1
      [] l \in {"fetch_add", "write", "read"} -> 2
      [] l \in {"store_tail", "store_head"} -> 3
      [] OTHER -> 4

\* a call of t in progress returns unless t itself stops
Returns(t) ==
    (pc[t] # "idle" /\ t \notin halted) ~> (pc[t] = "idle" \/ t \in halted)

C11_WaitFree ==
    /\ Returns("p1")
    /\ Returns("c1")
    /\ [](\A t \in Threads : Rank(pc[t]) <= 3)
    /\ [][\A t \in Threads :
             pc'[t] # pc[t] =>
                 (pc'[t] = "idle" \/ Rank(pc'[t]) = Rank(pc[t]) + 1)]_vars
    /\ [][halted' # halted \/ \E t \in Threads : pc'[t] # pc[t]]_vars

\* the consumer has stopped for ever before the last step of its first
\* successful Pop; the producer has made all its calls and all have returned
C11_Witness ==
    /\ halted = {"c1"}
    /\ pc["c1"] = "store_head"
    /\ popped = <<>>
    /\ pc["p1"] = "idle"
    /\ next_value > Calls
    /\ drop_count >= 2

(***************************************************************************)
(* C12.  The retry loops of RingBuffer are lock-free: a call goes back to  *)
(* an earlier position only from a compare_exchange_strong on head that    *)
(* found head different from the value the call had observed; and in a     *)
(* behaviour in which the other threads stop or make finitely many calls,  *)
(* every call in progress of a thread that has not stopped returns.        *)
(***************************************************************************)
\* position of a label in the code of RingBuffer::Push and RingBuffer::Pop
LoopRank(l) ==
    CASE l = "idle" -> 0
      [] l \in {"load_head", "load_tail"} -> 1
      [] l \in {"cas_evict", "read"} -> 2
      [] l \in {"write", "cas"} -> 3
      [] OTHER -> 4

\* the step repeats an iteration of a loop of thread t
Repeats(t) ==
    /\ pc[t] # "idle"
    /\ pc'[t] # "idle"
    /\ \/ LoopRank(pc'[t]) < LoopRank(pc[t])
       \/ pc'[t] = pc[t] /\ current_head'[t] # current_head[t]

C12_LockFree ==
    /\ [][\A t \in Threads :
             Repeats(t) =>
                 /\ pc[t] \in {"cas", "cas_evict"}
                 /\ head # current_head[t]
                 /\ head' = head
                 /\ current_head'[t] = head]_vars
    /\ Returns("p1")
    /\ \A c \in Consumers : Returns(c)

\* c1 is in a second iteration of the loop of Pop after its CAS failed, and
\* the other two threads have stopped for ever
C12_Witness ==
    /\ pc["c1"] = "load_tail"
    /\ potential_value["c1"] # 0
    /\ halted = {"p1", "c2"}

(***************************************************************************)
(* C13.  RingBuffer and SPSCRingBuffer, calls that do not overlap: a Pop   *)
(* that finds head = tail returns false, and from its first step to its    *)
(* return head, tail, every slot, drop_count and the caller's out_value    *)
(* keep the values they had when it was called.                            *)
(***************************************************************************)
\* the latest call found the buffer empty
PreEmpty == pre.head = pre.tail

C13_PopOnEmpty ==
    \A c \in Consumers :
        (pre.caller = c /\ PreEmpty) =>
            /\ head = pre.head
            /\ tail = pre.tail
            /\ buffer_ = pre.buffer_
            /\ drop_count = pre.drop_count
            /\ out_value[c] = pre.out_value
            /\ pc[c] = "idle" => ret[c] = "false"

\* a Pop has returned false on a buffer emptied by earlier Pops, the last
\* of which left its value in out_value, the slot at head holding another
C13_Witness ==
    /\ Returned("c1")
    /\ PreEmpty
    /\ ret["c1"] = "false"
    /\ popped # <<>>
    /\ out_value["c1"] = popped[Len(popped)]
    /\ buffer_[head] # out_value["c1"]

(***************************************************************************)
(* C14.  RingBuffer, calls that do not overlap: Front on a buffer that is  *)
(* not empty returns the oldest element and leaves head, tail and every    *)
(* slot as they were; a Pop called right after it returns true with the    *)
(* same value, and a Front called right after it returns the same value.   *)
(***************************************************************************)
\* the latest call of c, now returned, was a Front
FrontReturned(c) == Returned(c) /\ ret[c] = "value"

\* the call before the latest one was a Front of c, and it has returned
AfterFront(c) == pre.caller = c /\ pre.before = c /\ pre.ret[c] = "value"

C14_Front ==
    \A c \in Consumers :
        /\ (pre.caller = c /\ pc[c] = "front_load") =>
               /\ head = pre.head
               /\ tail = pre.tail
               /\ buffer_ = pre.buffer_
        /\ (FrontReturned(c) /\ ~PreEmpty) =>
               /\ front[c] = Head(PreContents)
               /\ head = pre.head
               /\ tail = pre.tail
               /\ buffer_ = pre.buffer_
        /\ (AfterFront(c) /\ ~PreEmpty /\ pc[c] = "idle") =>
               /\ ret[c] \in {"true", "value"}
               /\ ret[c] = "true" => out_value[c] = pre.front[c]
               /\ ret[c] = "value" => front[c] = pre.front[c]

\* after an eviction: Front, then a Pop that returns the value Front
\* returned, which is not the first value pushed
C14_Witness ==
    /\ AfterFront("c1")
    /\ ~PreEmpty
    /\ pc["c1"] = "idle"
    /\ ret["c1"] = "true"
    /\ out_value["c1"] = pre.front["c1"]
    /\ evicted > 0
    /\ out_value["c1"] > 1

(***************************************************************************)
(* C15.  SPSCRingBuffer and RingBuffer with Reject, one producer and one   *)
(* consumer, any interleaving: while Push writes its slot and until it     *)
(* stores tail, tail is still the index of that slot, and at the store the *)
(* slot holds the value; while Pop reads and until it advances head, head  *)
(* is still the index it read at; the slot a Pop reads is the one at head, *)
(* below the published tail, no Push is writing it, and it holds the whole *)
(* value of the oldest Push not yet delivered.                             *)
(***************************************************************************)
\* the value the Pop in progress of c has read
ValueRead(c) ==
    IF Variant = "SPSCRingBuffer" THEN out_value[c] ELSE potential_value[c]

C15_Publication ==
    Policy = "Reject" =>
        /\ \A p \in Producers :
              /\ pc[p] \in {"write", "store_tail"} => tail = current_tail[p]
              /\ pc[p] = "store_tail" => buffer_[current_tail[p]] = value[p]
        /\ \A c \in Consumers :
              /\ pc[c] \in {"read", "cas", "store_head"} =>
                    /\ head = current_head[c]
                    /\ head # tail
                    /\ Len(popped) < Len(pushed)
              /\ pc[c] = "read" =>
                    /\ Writers(current_head[c]) = {}
                    /\ ReadOutcomes(current_head[c]) =
                           {pushed[Len(popped) + 1]}
              /\ pc[c] \in {"cas", "store_head"} =>
                    ValueRead(c) = pushed[Len(popped) + 1]
        /\ Torn \notin Range(popped)
        /\ \A i \in 0..(Capacity - 1) : buffer_[i] # Torn

\* the consumer is about to read one slot while the producer is about to
\* write another, tail having wrapped
C15_Witness ==
    /\ Policy = "Reject"
    /\ Variant = "SPSCRingBuffer"
    /\ pc["c1"] = "read"
    /\ pc["p1"] = "write"
    /\ current_tail["p1"] < current_head["c1"]
    /\ Len(pushed) >= Capacity

(***************************************************************************)
(* C16.  SPSCRingBuffer, its producer and its consumer: no step of Push    *)
(* changes head, no step of Pop changes tail, drop_count or a slot; the    *)
(* step by which a Push returns false adds one to drop_count and changes   *)
(* nothing else of the buffer, and tail has been the same since that call  *)
(* loaded it; tail changes only in the tail store of Push and head only in *)
(* the head store of Pop.                                                  *)
(***************************************************************************)
C16_Ownership ==
    /\ [](\A p \in Producers :
             pc[p] \in {"load_head", "fetch_add", "write", "store_tail"} =>
                 tail = current_tail[p])
    /\ [](\A c \in Consumers :
             pc[c] \in {"load_tail", "read", "store_head"} =>
                 head = current_head[c])
    /\ [][\A p \in Producers :
             pc'[p] # pc[p] =>
                 /\ head' = head
                 /\ pc[p] # "store_tail" => tail' = tail
                 /\ pc[p] # "write" => buffer_' = buffer_
                 /\ pc[p] # "fetch_add" => drop_count' = drop_count
                 /\ (pc'[p] = "idle" /\ ret'[p] = "false") =>
                        /\ pc[p] = "fetch_add"
                        /\ drop_count' = drop_count + 1
                        /\ tail' = tail
                        /\ buffer_' = buffer_]_vars
    /\ [][\A c \in Consumers :
             pc'[c] # pc[c] =>
                 /\ tail' = tail
                 /\ drop_count' = drop_count
                 /\ buffer_' = buffer_
                 /\ pc[c] # "store_head" => head' = head]_vars
    /\ [][tail' # tail =>
             \E p \in Producers : pc[p] = "store_tail" /\ pc'[p] = "idle"]_vars
    /\ [][head' # head =>
             \E c \in Consumers : pc[c] = "store_head" /\ pc'[c] = "idle"]_vars

\* a Push has returned false while a Pop is between its read and its head
\* store
C16_Witness ==
    /\ Variant = "SPSCRingBuffer"
    /\ pc["p1"] = "idle"
    /\ ret["p1"] = "false"
    /\ drop_count = 1
    /\ pc["c1"] = "store_head"
    /\ head = current_head["c1"]
    /\ tail = BitAnd(head + Capacity - 1, Mask)

(***************************************************************************)
(* C17.  RingBuffer, Overwrite, one producer and one consumer, any         *)
(* interleaving: the values returned by successful Pops form a             *)
(* subsequence of the pushed values, none returned twice and none out of   *)
(* order.  The producer pushes 1, 2, 3, ... and every Push returns true,   *)
(* so a subsequence is a strictly increasing sequence of values whose Push *)
(* has written its slot.                                                   *)
(***************************************************************************)
\* s is strictly increasing
Increasing(s) == \A i, j \in 1..Len(s) : i < j => s[i] < s[j]

\* the values a Push has finished writing or is writing
Written == Range(pushed) \cup {value[p] : p \in {q \in Producers : pc[q] = "store_tail"}}

C17_OverwriteSubsequence ==
    (Variant = "RingBuffer" /\ Policy = "Overwrite") =>
        /\ Range(popped) \subseteq Written
        /\ Increasing(popped)

(***************************************************************************)
(* C18.  RingBuffer, Overwrite, one producer and one consumer, any         *)
(* interleaving: the advances of head, successful Pops and evictions       *)
(* together, never outnumber the advances of tail, the completed Pushes;   *)
(* and a Pop that makes the n-th advance of head returns the n-th pushed   *)
(* value, which exists, is unconsumed and has not been evicted.            *)
(***************************************************************************)
HeadAdvances == Len(popped) + evicted

C18_HeadBehindTail ==
    /\ []((Variant = "RingBuffer" /\ Policy = "Overwrite") =>
              HeadAdvances <= Len(pushed))
    /\ [][(Variant = "RingBuffer" /\ Policy = "Overwrite"
              /\ popped' # popped) =>
              /\ HeadAdvances' <= Len(pushed)
              /\ popped'[Len(popped')] = pushed[HeadAdvances']]_vars

(***************************************************************************)
(* C19.  RingBuffer, Overwrite, one producer and any consumers: Push       *)
(* changes head only in its compare_exchange_strong, only when head is the *)
(* slot after tail, and by one slot; whether the exchange succeeds or not  *)
(* the call goes on to write its slot, so it advances head at most once;   *)
(* it goes on to write without evicting when head is no longer the slot    *)
(* after tail, and every call stores its value and returns true.           *)
(***************************************************************************)
C19_EvictOnce ==
    [][\A p \in Producers :
          /\ (pc'[p] # pc[p] /\ head' # head) =>
                 /\ pc[p] = "cas_evict"
                 /\ head = Next1(tail)
                 /\ head' = Next1(head)
                 /\ evicted' = evicted + 1
          /\ pc[p] = "cas_evict" =>
                 /\ pc'[p] \in {"cas_evict", "write"}
                 /\ current_head'[p] # current_head[p] =>
                        /\ pc'[p] = "write"
                        /\ head # Next1(tail)
                        /\ head' = head
                        /\ evicted' = evicted
          /\ pc[p] = "write" =>
                 /\ pc'[p] \in {"write", "store_tail"}
                 /\ pc'[p] = "store_tail" => buffer_'[tail] = value[p]
          /\ pc[p] = "store_tail" =>
                 /\ pc'[p] \in {"store_tail", "idle"}
                 /\ pc'[p] = "idle" =>
                        /\ ret'[p] = "true"
                        /\ tail' = Next1(tail)
                        /\ buffer_[tail] = value[p]
          /\ (pc'[p] = "idle" /\ pc[p] # "idle") => pc[p] = "store_tail"]_vars

\* the producer found the buffer full, a consumer then freed a slot, the
\* CAS failed and the Push is about to write without having evicted
C19_Witness ==
    /\ pc["p1"] = "write"
    /\ next_head["p1"] # 0
    /\ next_head["p1"] = Next1(next_tail["p1"])
    /\ current_head["p1"] # next_tail["p1"]
    /\ head = current_head["p1"]
    /\ evicted = 0

(***************************************************************************)
(* C20.  SPSCRingBuffer and RingBuffer with Reject, one producer and one   *)
(* consumer, any interleaving: a Push returns false only after a head load *)
(* made while the buffer held Capacity - 1 elements, and a Pop returns     *)
(* false only at a tail load made while the buffer held no published       *)
(* element; so a call during which the buffer is never full, or never      *)
(* empty, returns true.                                                    *)
(***************************************************************************)
C20_NoSpuriousFailure ==
    [][Policy = "Reject" =>
          /\ \A p \in Producers :
                /\ (pc[p] # "idle" /\ pc'[p] = "idle" /\ ret'[p] = "false") =>
                       pc[p] = (IF Variant = "SPSCRingBuffer"
                                THEN "fetch_add" ELSE "load_head")
                /\ pc'[p] = "fetch_add" => pc[p] \in {"load_head", "fetch_add"}
                /\ (pc[p] = "load_head" /\ pc'[p] \in {"fetch_add", "idle"}) =>
                       /\ Occupied = Capacity - 1
                       /\ Size = Capacity - 1
          /\ \A c \in Consumers :
                /\ (pc[c] # "idle" /\ pc'[c] = "idle" /\ ret'[c] = "false") =>
                       /\ pc[c] = "load_tail"
                       /\ Occupied = 0
                       /\ Empty
                /\ (pc[c] = "load_tail" /\ Occupied > 0) => pc'[c] # "idle"]_vars

\* a Push has been rejected on a buffer of capacity 4 that is still full,
\* its indices having wrapped, while the consumer is inside a Pop that has
\* read and not yet advanced head
C20_Witness ==
    /\ Policy = "Reject"
    /\ Capacity = 4
    /\ pc["p1"] = "idle"
    /\ ret["p1"] = "false"
    /\ pc["c1"] = "cas"
    /\ tail < head
    /\ Occupied = Capacity - 1
    /\ popped # <<>>

====
